---- MODULE Spec2Model ----
(***************************************************************************)
(* Quine-McCluskey minimizer (src/src/lib.rs): the public entry points,    *)
(* input validation, prime implicant generation, the prime implicant chart *)
(* and its reduction, Petrick's method, solution assembly and checking,    *)
(* and the thread/channel race of the timed path.                          *)
(*                                                                         *)
(* lib.rs is modelled from its source.  The modules it declares (group,    *)
(* implicant, petrick, prime_implicant_chart) are modelled from the        *)
(* written specification of the repository, sections 3 and 4.              *)
(***************************************************************************)
EXTENDS Integers, Sequences, FiniteSets, TLC

\* ------------------------------------------------------------------ bounds

\* minimize is run on every input with 1..MaxVars variables and disjoint
\* in-range term sets.
MaxVars == 2

\* Every entry point is run, with and without a timeout, on every such input
\* with 1..MaxSmallVars variables.
MaxSmallVars == 1

\* Input validation is run on all pairs of term sets drawn from 0..MaxTerm.
MaxTerm == 2

\* Variable count of the additional family of inputs drawn from the pools below.
WideVars == 4

\* DEFAULT_VARIABLES.len()
DefaultVariablesLen == 26

DEFAULT_VARIABLES ==
    << "A", "B", "C", "D", "E", "F", "G", "H", "I", "J", "K", "L", "M",
       "N", "O", "P", "Q", "R", "S", "T", "U", "V", "W", "X", "Y", "Z" >>

SOP == "SOP"
POS == "POS"

\* ------------------------------------------------------------ bit patterns

Pow2(k) == 2 ^ k

Bit(x, i) == (x \div Pow2(i)) % 2

\* number of positions (below width w) where x has a 1
PopCount(x, w) == Cardinality({i \in 0 .. w - 1 : Bit(x, i) = 1})

\* the positions (below width w) where x and y differ
DiffBits(x, y, w) == {i \in 0 .. w - 1 : Bit(x, i) # Bit(y, i)}

\* --------------------------------------------------------------- Implicant
\* An implicant is <<value, mask>>: mask bits mark eliminated positions.

ImplicantFromTerm(t) == << t, 0 >>

\* a function as a table of its values
Tabulated(f) == f @@ << >>

\* the widths in use
Widths == 1 .. (IF MaxVars > WideVars THEN MaxVars ELSE WideVars)

\* every <<value, mask>> of width w, value bits clear at eliminated positions
ImplicantsOfWidth ==
    Tabulated([w \in Widths |->
        {im \in (0 .. Pow2(w) - 1) \X (0 .. Pow2(w) - 1) :
            \A i \in 0 .. w - 1 : Bit(im[2], i) = 0 \/ Bit(im[1], i) = 0}])

Implicants(w) == ImplicantsOfWidth[w]

\* the terms an implicant of width w covers: every assignment of the
\* eliminated positions, the fixed positions held
CoveredTerms ==
    Tabulated([w \in Widths |->
        Tabulated([im \in Implicants(w) |->
            {t \in 0 .. Pow2(w) - 1 :
                \A i \in 0 .. w - 1 : Bit(im[2], i) = 1 \/ Bit(t, i) = Bit(im[1], i)}])])

get_terms(imp, w) == CoveredTerms[w][imp]

\* identical masks and exactly one differing fixed position
CanCombine(a, b, w) ==
    /\ a[2] = b[2]
    /\ Cardinality({i \in DiffBits(a[1], b[1], w) : Bit(a[2], i) = 0}) = 1

\* the differing position joins the mask; the value is kept elsewhere
ImplicantCombine(a, b, w) ==
    LET i == CHOOSE j \in DiffBits(a[1], b[1], w) : Bit(a[2], j) = 0
    IN  << a[1] - Bit(a[1], i) * Pow2(i), a[2] + Pow2(i) >>

\* number of non-eliminated positions
LiteralCount(imp, w) == w - PopCount(imp[2], w)

\* ------------------------------------------------------------------- Group
\* A group is [implicants, combined]: its members and those consumed this round.

NewGroup(imps) == [implicants |-> imps, combined |-> {}]

\* variable_count + 1 groups, by popcount of the term, ascending
group_terms(w, terms) ==
    [k \in 1 .. w + 1 |->
        NewGroup({ImplicantFromTerm(t) : t \in {u \in terms : PopCount(u, w) = k - 1}})]

\* the implicants produced from every combinable pair (a in g, b in next),
\* deduplicated by structural equality
GroupCombine(g, next, w) ==
    {ImplicantCombine(p[1], p[2], w) :
        p \in {q \in g.implicants \X next.implicants : CanCombine(q[1], q[2], w)}}

\* the members of g consumed by a combination with a member of other
Consumed(g, other, w) ==
    {a \in g.implicants : \E b \in other.implicants : CanCombine(a, b, w)}

\* the groups of a round after every adjacent pair was combined: each group
\* has marked the members that took part in a combination
MarkCombined(gs, w) ==
    [k \in 1 .. Len(gs) |->
        [implicants |-> gs[k].implicants,
         combined   |-> (IF k < Len(gs) THEN Consumed(gs[k], gs[k + 1], w) ELSE {})
                        \cup (IF k > 1 THEN Consumed(gs[k], gs[k - 1], w) ELSE {})]]

was_combined(g) == g.combined # {}

\* not consumed this round, and not covering don't-cares alone
get_prime_implicants(g, dont_cares, w) ==
    {a \in g.implicants :
        /\ a \notin g.combined
        /\ ~(get_terms(a, w) \subseteq dont_cares)}

\* ------------------------------------------------------- sequences and sets

RECURSIVE SetToSeq(_)
SetToSeq(S) ==
    IF S = {} THEN << >>
    ELSE LET x == CHOOSE y \in S : TRUE IN << x >> \o SetToSeq(S \ {x})

Range(q) == {q[k] : k \in 1 .. Len(q)}

RECURSIVE Flatten(_)
Flatten(q) == IF q = << >> THEN << >> ELSE Head(q) \o Flatten(Tail(q))

RECURSIVE SumOver(_, _)
SumOver(S, w) ==
    IF S = {} THEN 0
    ELSE LET x == CHOOSE y \in S : TRUE IN LiteralCount(x, w) + SumOver(S \ {x}, w)

\* ------------------------------------------------- find_prime_implicants

\* a round that keeps the number of groups: the last group is carried along,
\* combined with nothing
NextGroups_SameLength(gs, w) ==
    [k \in 1 .. Len(gs) |->
        IF k < Len(gs) THEN NewGroup(GroupCombine(gs[k], gs[k + 1], w))
        ELSE NewGroup({})]

\* groups[i].combine(&groups[i + 1]) for i in 0 .. groups.len() - 1
NextGroups(gs, w) ==
    [k \in 1 .. Len(gs) - 1 |-> NewGroup(GroupCombine(gs[k], gs[k + 1], w))]

\* what one round appends to prime_implicants
RoundPrimeImplicants(gs, dont_cares, w) ==
    Flatten([k \in 1 .. Len(gs) |-> SetToSeq(get_prime_implicants(gs[k], dont_cares, w))])

\* ------------------------------------------------------ PrimeImplicantChart

\* columns of the chart: the covered terms that are not don't-cares
ChartColumns(implicants, dont_cares, w) ==
    UNION {get_terms(r, w) : r \in implicants} \ dont_cares

\* the columns of cs a row covers
RowCols(r, cs, w) == get_terms(r, w) \cap cs

\* the rows of rs covering a column
ColRows(c, rs, w) == {r \in rs : c \in get_terms(r, w)}

\* rows that are the only cover of some column
EssentialRows(rs, cs, w) ==
    {r \in rs : \E c \in cs : ColRows(c, rs, w) = {r}}

\* rows whose columns are a subset of another remaining row's columns
DominatedRows(rs, cs, w) ==
    {r \in rs : \E r2 \in rs \ {r} : RowCols(r, cs, w) \subseteq RowCols(r2, cs, w)}

\* columns whose rows are a superset of another remaining column's rows
DominatingColumns(rs, cs, w) ==
    {c \in cs : \E c2 \in cs \ {c} : ColRows(c2, rs, w) \subseteq ColRows(c, rs, w)}

Chart(rs, cs, ess) == [rows |-> rs, columns |-> cs, essential |-> ess]

\* PrimeImplicantChart::new
NewChart(implicants, dcs, w) ==
    Chart(implicants, ChartColumns(implicants, dcs, w), {})

\* rule 1 of simplify: the chart after essential extraction, if any row is essential
EssentialStep(ch, w) ==
    LET e == EssentialRows(ch.rows, ch.columns, w)
    IN  IF e = {} THEN {}
        ELSE {Chart(ch.rows \ e,
                    ch.columns \ UNION {get_terms(r, w) : r \in e},
                    ch.essential \cup e)}

\* every dominated row removed at once, rows dominating one another included
RowStep_AllAtOnce(ch, w, find_all_solutions) ==
    IF find_all_solutions \/ DominatedRows(ch.rows, ch.columns, w) = {} THEN {}
    ELSE {Chart(ch.rows \ DominatedRows(ch.rows, ch.columns, w), ch.columns, ch.essential)}

\* rule 2 of simplify, rows: the charts after one dominated row is removed
RowStep(ch, w, find_all_solutions) ==
    IF find_all_solutions THEN {}
    ELSE {Chart(ch.rows \ {r}, ch.columns, ch.essential) :
             r \in DominatedRows(ch.rows, ch.columns, w)}

\* rule 2 of simplify, columns: the charts after one dominating column is removed
ColumnStep(ch, w, find_all_solutions) ==
    IF find_all_solutions THEN {}
    ELSE {Chart(ch.rows, ch.columns \ {c}, ch.essential) :
             c \in DominatingColumns(ch.rows, ch.columns, w)}

SimplifySteps(ch, w, find_all_solutions) ==
    EssentialStep(ch, w) \cup RowStep(ch, w, find_all_solutions)
        \cup ColumnStep(ch, w, find_all_solutions)

\* ----------------------------------------------------------------- Petrick

\* absorption: drop every product that is a strict superset of another
Absorb(P) == {p \in P : ~ \E q \in P : q # p /\ q \subseteq p}

\* the product of sums expanded column by column
RECURSIVE Expand(_, _, _, _)
Expand(P, cs, rs, w) ==
    IF cs = {} THEN P
    ELSE LET c == CHOOSE x \in cs : TRUE
         IN  Expand(Absorb({p \cup {r} : p \in P, r \in ColRows(c, rs, w)}),
                    cs \ {c}, rs, w)

\* the coverings with the fewest rows and, among them, the fewest literals
PetrickSolve(rs, cs, w) ==
    LET candidates == Expand({{}}, cs, rs, w)
        fewest == {p \in candidates :
                      \A q \in candidates : Cardinality(p) <= Cardinality(q)}
    IN  {p \in fewest : \A q \in fewest : SumOver(p, w) <= SumOver(q, w)}

\* ------------------------------------------------------------------ lib.rs

\* get_dont_cares with the maxterms left out of the care terms
get_dont_cares_MintermsOnly(variable_count, minterms, maxterms) ==
    (0 .. Pow2(variable_count) - 1) \ minterms

get_dont_cares(variable_count, minterms, maxterms) ==
    (0 .. Pow2(variable_count) - 1) \ (minterms \cup maxterms)

check_solution(terms, dont_cares, solution, w) ==
    LET covered_terms == UNION {get_terms(imp, w) : imp \in solution}
    IN  /\ terms \subseteq covered_terms
        /\ covered_terms \subseteq (terms \cup dont_cares)

Trim(name) == IF name = " A" THEN "A" ELSE name

Err(kind, payload) == [kind |-> kind, payload |-> payload]
Ok(payload) == [kind |-> "Ok", payload |-> payload]
None == [kind |-> "None", payload |-> {}]

\* validate_input without its last check, the one for conflicting terms
validate_input_NoConflictCheck(variables, terms1, terms2) ==
    LET n == Len(variables)
        duplicates == {variables[i] : i \in {k \in 1 .. n :
                          \E j \in k + 1 .. n : variables[k] = variables[j]}}
        out_of_bounds == {t \in terms1 \cup terms2 : t >= Pow2(n)}
    IN  IF n = 0 \/ n > DefaultVariablesLen
          THEN Err("InvalidVariableCount", {n})
        ELSE IF \E i \in 1 .. n :
                  \/ variables[i] = "0" \/ variables[i] = "1"
                  \/ variables[i] = "" \/ variables[i] # Trim(variables[i])
          THEN Err("InvalidVariable", {})
        ELSE IF duplicates # {}
          THEN Err("DuplicateVariables", duplicates)
        ELSE IF out_of_bounds # {}
          THEN Err("TermOutOfBounds", out_of_bounds)
        ELSE Ok({})

validate_input(variables, terms1, terms2) ==
    LET n == Len(variables)
        duplicates == {variables[i] : i \in {k \in 1 .. n :
                          \E j \in k + 1 .. n : variables[k] = variables[j]}}
        out_of_bounds == {t \in terms1 \cup terms2 : t >= Pow2(n)}
        conflicts == terms1 \cap terms2
    IN  IF n = 0 \/ n > DefaultVariablesLen
          THEN Err("InvalidVariableCount", {n})
        ELSE IF \E i \in 1 .. n :
                  \/ variables[i] = "0" \/ variables[i] = "1"
                  \/ variables[i] = "" \/ variables[i] # Trim(variables[i])
          THEN Err("InvalidVariable", {})
        ELSE IF duplicates # {}
          THEN Err("DuplicateVariables", duplicates)
        ELSE IF out_of_bounds # {}
          THEN Err("TermOutOfBounds", out_of_bounds)
        ELSE IF conflicts # {}
          THEN Err("TermConflict", conflicts)
        ELSE Ok({})

\* ------------------------------------------------------------------ inputs

Prefix(n) == SubSeq(DEFAULT_VARIABLES, 1, n)

\* the entry points with the form each may be called with
EntryForms ==
    { << "minimize", SOP >>, << "minimize", POS >>,
      << "minimize_minterms", SOP >>, << "minimize_maxterms", POS >> }

Args(ef, variables, t1, t2, fas, timeout) ==
    [entry |-> ef[1], form |-> ef[2], variables |-> variables,
     terms1 |-> t1, terms2 |-> t2,
     find_all_solutions |-> fas, timeout |-> timeout]

\* the calls of the given entry points with n variables and disjoint
\* in-range term sets
CallsOn(n, entries, timeout) ==
    UNION {{Args(ef, Prefix(n), t1, t2, fas, timeout) :
               ef \in entries,
               t2 \in SUBSET ((0 .. Pow2(n) - 1) \ t1),
               fas \in BOOLEAN} :
           t1 \in SUBSET (0 .. Pow2(n) - 1)}

\* every valid call of minimize without a timeout on 1..MaxVars variables
ValidInputs ==
    UNION {CallsOn(n, {ef \in EntryForms : ef[1] = "minimize"}, FALSE) :
           n \in 1 .. MaxVars}

\* every valid call of every entry point, with and without a timeout, on
\* 1..MaxSmallVars variables
SmallInputs ==
    UNION {CallsOn(n, EntryForms, FALSE) \cup CallsOn(n, EntryForms, TRUE) :
           n \in 1 .. MaxSmallVars}

\* variable lists that validation accepts or rejects
VariableLists ==
    {Prefix(n) : n \in 0 .. MaxVars}
        \cup { << "0" >>, << " A" >>, << "A", "" >>, << "A", "B", "A" >> }

\* calls that exercise validation: any variable list, any two term sets
ValidationInputs ==
    {Args(ef, variables, t1, t2, FALSE, FALSE) :
        ef \in EntryForms, variables \in VariableLists,
        t1 \in SUBSET (0 .. MaxTerm), t2 \in SUBSET (0 .. MaxTerm)}

WideTerms == {0, 1, 3}
WideDontCares == {4, 7, 8, 11, 12, 15}

\* calls of minimize_minterms with WideVars variables, terms from the pools
WideInputs ==
    {Args(<< "minimize_minterms", SOP >>, Prefix(WideVars), t1, t2, fas, FALSE) :
        t1 \in SUBSET WideTerms, t2 \in SUBSET WideDontCares, fas \in BOOLEAN}

Inputs == ValidInputs \cup SmallInputs \cup ValidationInputs \cup WideInputs

\* ------------------------------------------------------------------- state

VARIABLES
    args,              \* the arguments of the call
    pc,                \* the caller: "start", "inline", "waiting", "done", "aborted"
    result,            \* what the caller returns
    terms,             \* minimize_internal's terms (the required terms)
    dont_cares,        \* minimize_internal's dont_cares
    epc,               \* minimize_internal: "idle", "grouping", "simplify", "returned", "panicked"
    groups,            \* find_prime_implicants: the groups of the current round
    rounds,            \* find_prime_implicants: rounds completed
    prime_implicants,  \* find_prime_implicants: the Vec accumulated so far
    rows,              \* the chart's remaining rows
    columns,           \* the chart's remaining columns
    essential,         \* simplify's essential prime implicants
    solutions,         \* minimize_internal's return value
    comp,              \* the computation thread
    timer,             \* the timer thread
    channel,           \* messages sent and not yet received
    receiver,          \* "none", "alive", "dropped"
    sent               \* every message accepted by the channel, in order of arrival

vars ==
    << args, pc, result, terms, dont_cares, epc, groups, rounds, prime_implicants,
       rows, columns, essential, solutions, comp, timer, channel, receiver, sent >>

engine == << terms, dont_cares, epc, groups, rounds, prime_implicants,
             rows, columns, essential, solutions >>
threads == << comp, timer, channel, receiver, sent >>

W == Len(args.variables)

Init ==
    /\ args \in Inputs
    /\ pc = "start"
    /\ result = None
    /\ terms = {}
    /\ dont_cares = {}
    /\ epc = "idle"
    /\ groups = << >>
    /\ rounds = 0
    /\ prime_implicants = << >>
    /\ rows = {}
    /\ columns = {}
    /\ essential = {}
    /\ solutions = {}
    /\ comp = "none"
    /\ timer = "none"
    /\ channel = << >>
    /\ receiver = "none"
    /\ sent = << >>

\* ------------------------------------------------------- the entry points

\* minimize: the required terms are the minterms (SOP) or the maxterms (POS)
\* and the don't-cares are inferred; minimize_minterms and minimize_maxterms
\* pass their two sets on as given
CallTerms(a) ==
    IF a.entry = "minimize" /\ a.form = POS THEN a.terms2 ELSE a.terms1

CallDontCares(a) ==
    IF a.entry = "minimize"
    THEN get_dont_cares(Len(a.variables), a.terms1, a.terms2)
    ELSE a.terms2

\* StartEngine grouping the required terms alone, the don't-cares forgotten
StartEngine_TermsOnly ==
    /\ terms' = CallTerms(args)
    /\ dont_cares' = CallDontCares(args)
    /\ groups' = group_terms(W, CallTerms(args))
    /\ epc' = "grouping"
    /\ UNCHANGED << rounds, prime_implicants, rows, columns, essential, solutions >>

\* find_prime_implicants up to its loop: the union of the terms, grouped
StartEngine ==
    /\ terms' = CallTerms(args)
    /\ dont_cares' = CallDontCares(args)
    /\ groups' = group_terms(W, CallTerms(args) \cup CallDontCares(args))
    /\ epc' = "grouping"
    /\ UNCHANGED << rounds, prime_implicants, rows, columns, essential, solutions >>

\* minimize / minimize_minterms / minimize_maxterms up to the engine's start,
\* and minimize_internal_with_timeout up to its recv
Call ==
    /\ pc = "start"
    /\ LET v == validate_input(args.variables, args.terms1, args.terms2)
       IN  IF v.kind # "Ok"
           THEN /\ pc' = "done"
                /\ result' = v
                /\ UNCHANGED << engine, threads >>
           ELSE /\ StartEngine
                /\ result' = result
                /\ IF args.timeout
                   THEN /\ pc' = "waiting"
                        /\ comp' = "running"
                        /\ timer' = "sleeping"
                        /\ receiver' = "alive"
                        /\ UNCHANGED << channel, sent >>
                   ELSE /\ pc' = "inline"
                        /\ UNCHANGED threads
    /\ UNCHANGED args

\* --------------------------------------------------------- minimize_internal

EngineRuns == epc \in {"grouping", "simplify"} /\ (pc = "inline" \/ comp = "running")

\* one iteration of find_prime_implicants' loop; on the break, the chart is built
Round ==
    /\ EngineRuns
    /\ epc = "grouping"
    /\ LET marked == MarkCombined(groups, W)
           next_groups == NextGroups(groups, W)
           found == prime_implicants \o RoundPrimeImplicants(marked, dont_cares, W)
       IN  /\ prime_implicants' = found
           /\ rounds' = rounds + 1
           /\ IF \A k \in 1 .. Len(marked) : ~was_combined(marked[k])
              THEN /\ epc' = "simplify"
                   /\ groups' = marked
                   /\ rows' = NewChart(Range(found), dont_cares, W).rows
                   /\ columns' = NewChart(Range(found), dont_cares, W).columns
              ELSE /\ epc' = "grouping"
                   /\ groups' = next_groups
                   /\ UNCHANGED << rows, columns >>
    /\ UNCHANGED << args, pc, result, terms, dont_cares, essential, solutions, threads >>

\* the flag minimize_internal hands to simplify
SimplifyFlag == args.find_all_solutions

\* simplify, rule 1: the rows that are the only cover of a column become
\* essential and leave the chart with the columns they cover
ExtractEssential ==
    /\ EngineRuns
    /\ epc = "simplify"
    /\ \E ch \in EssentialStep(Chart(rows, columns, essential), W) :
          /\ rows' = ch.rows
          /\ columns' = ch.columns
          /\ essential' = ch.essential
    /\ UNCHANGED << args, pc, result, terms, dont_cares, epc, groups, rounds,
                    prime_implicants, solutions, threads >>

\* simplify, rule 2 (not when all solutions are asked for): a dominated row leaves
RemoveDominatedRow ==
    /\ EngineRuns
    /\ epc = "simplify"
    /\ \E ch \in RowStep(Chart(rows, columns, essential), W, SimplifyFlag) :
          rows' = ch.rows
    /\ UNCHANGED << args, pc, result, terms, dont_cares, epc, groups, rounds,
                    prime_implicants, columns, essential, solutions, threads >>

\* simplify, rule 2: a dominating column leaves
RemoveDominatingColumn ==
    /\ EngineRuns
    /\ epc = "simplify"
    /\ \E ch \in ColumnStep(Chart(rows, columns, essential), W, SimplifyFlag) :
          columns' = ch.columns
    /\ UNCHANGED << args, pc, result, terms, dont_cares, epc, groups, rounds,
                    prime_implicants, rows, essential, solutions, threads >>

\* no rule of simplify changes the chart any more
Simplified == SimplifySteps(Chart(rows, columns, essential), W, SimplifyFlag) = {}

\* Assemble keeping a single Petrick covering
Assemble_FirstOnly(ess, petrick_solutions) ==
    IF petrick_solutions = {} THEN {}
    ELSE {ess \cup (CHOOSE p \in petrick_solutions : TRUE)}

\* Assemble flattening every Petrick covering into one solution
Assemble_Flattened(ess, petrick_solutions) ==
    IF petrick_solutions = {} THEN {}
    ELSE {ess \cup UNION petrick_solutions}

\* essential implicants followed by each Petrick covering
Assemble(ess, petrick_solutions) == {ess \cup p : p \in petrick_solutions}

\* the assertion on every assembled solution and what follows it: the return
\* to the caller or to the thread's send, or the panic of whoever runs the engine
Finish(sols) ==
    /\ EngineRuns
    /\ epc = "simplify"
    /\ Simplified
    /\ LET ok == \A sol \in sols : check_solution(terms, dont_cares, sol, W)
       IN  /\ solutions' = sols
           /\ epc' = IF ok THEN "returned" ELSE "panicked"
           /\ IF pc = "inline"
              THEN /\ pc' = IF ok THEN "done" ELSE "aborted"
                   /\ result' = IF ok THEN Ok(sols) ELSE result
                   /\ comp' = comp
              ELSE /\ comp' = IF ok THEN "sending" ELSE "panicked"
                   /\ UNCHANGED << pc, result >>
    /\ UNCHANGED << args, terms, dont_cares, groups, rounds, prime_implicants,
                    rows, columns, essential, timer, channel, receiver, sent >>

\* the rest of minimize_internal once simplify returned: Petrick, assembly,
\* the assertion on every solution, and the return to the caller or the thread
Solve == Finish(Assemble(essential, PetrickSolve(rows, columns, W)))

\* ------------------------------------------- minimize_internal_with_timeout

TimeoutMsg == Err("Timeout", {})

\* sender.send(Ok(..)).unwrap() in the computation thread
CompSend ==
    /\ comp = "sending"
    /\ IF receiver = "alive"
       THEN /\ channel' = Append(channel, Ok(solutions))
            /\ sent' = Append(sent, Ok(solutions))
            /\ comp' = "finished"
       ELSE /\ comp' = "send_panicked"
            /\ UNCHANGED << channel, sent >>
    /\ UNCHANGED << args, pc, result, engine, timer, receiver >>

\* thread::sleep(timeout); timeout_sender.send(Err(Error::Timeout)).unwrap()
TimerSend ==
    /\ timer = "sleeping"
    /\ IF receiver = "alive"
       THEN /\ channel' = Append(channel, TimeoutMsg)
            /\ sent' = Append(sent, TimeoutMsg)
            /\ timer' = "finished"
       ELSE /\ timer' = "send_panicked"
            /\ UNCHANGED << channel, sent >>
    /\ UNCHANGED << args, pc, result, engine, comp, receiver >>

SendersGone ==
    /\ comp \in {"finished", "panicked", "send_panicked"}
    /\ timer \in {"finished", "send_panicked"}

\* recv handing over the newest message instead of the oldest
Received_Newest(ch) == ch[Len(ch)]

\* the message recv hands over
Received(ch) == Head(ch)

\* receiver.recv().unwrap(): the caller takes one message and returns it; the
\* receiver is dropped with whatever the channel still holds
Recv ==
    /\ pc = "waiting"
    /\ channel # << >> \/ SendersGone
    /\ IF channel # << >>
       THEN /\ result' = Received(channel)
            /\ pc' = "done"
       ELSE /\ result' = result
            /\ pc' = "aborted"
    /\ channel' = << >>
    /\ receiver' = "dropped"
    /\ UNCHANGED << args, engine, comp, timer, sent >>

Next ==
    \/ Call
    \/ Round
    \/ ExtractEssential
    \/ RemoveDominatedRow
    \/ RemoveDominatingColumn
    \/ Solve
    \/ CompSend
    \/ TimerSend
    \/ Recv

Spec == Init /\ [][Next]_vars

\* ------------------------------------------- the engine with a defect
\* The assertion of minimize_internal guards against a defect of the
\* algorithm.  What a failed assertion does to the call is observed on an
\* engine that has such a defect: its assembly forgets the essential
\* implicants, so check_solution fails whenever one of them is needed.  All
\* the rest, the assertion and the threads included, is the code's.

Assemble_Defective(ess, petrick_solutions) == petrick_solutions

SolveDefective ==
    Finish(Assemble_Defective(essential, PetrickSolve(rows, columns, W)))

NextDefective ==
    \/ Call
    \/ Round
    \/ ExtractEssential
    \/ RemoveDominatedRow
    \/ RemoveDominatingColumn
    \/ SolveDefective
    \/ CompSend
    \/ TimerSend
    \/ Recv

SpecDefective == Init /\ [][NextDefective]_vars

\* ------------------------------------------------------------ what is meant

\* the call passed validation and reached the engine
Started == pc # "start" /\ validate_input(args.variables, args.terms1, args.terms2).kind = "Ok"

\* the required terms and the don't-cares the arguments stand for
RequiredTerms ==
    IF args.entry = "minimize" /\ args.form = POS THEN args.terms2 ELSE args.terms1

DontCareTerms ==
    IF args.entry = "minimize"
    THEN {t \in 0 .. Pow2(W) - 1 : t \notin args.terms1 /\ t \notin args.terms2}
    ELSE args.terms2

Covered(sol) == UNION {get_terms(imp, W) : imp \in sol}

Sound(sol) ==
    /\ RequiredTerms \subseteq Covered(sol)
    /\ Covered(sol) \subseteq RequiredTerms \cup DontCareTerms

AllImplicants == Implicants(W)

ValidImplicants ==
    {im \in AllImplicants : get_terms(im, W) \subseteq RequiredTerms \cup DontCareTerms}

\* the implicants that cover everything an implicant covers, and more
MoreGeneral ==
    Tabulated([w \in Widths |->
        Tabulated([im \in Implicants(w) |->
            {big \in Implicants(w) :
                big # im /\ CoveredTerms[w][im] \subseteq CoveredTerms[w][big]}])])

\* valid, contained in no more general valid implicant, covering a required term
PrimeImplicantsMeant ==
    LET valid == ValidImplicants
    IN  {im \in valid :
            /\ get_terms(im, W) \cap RequiredTerms # {}
            /\ MoreGeneral[W][im] \cap valid = {}}

\* the covers of the required terms by prime implicants with the fewest
\* implicants and, among those, the fewest literals
BestCovers ==
    LET covers == {S \in SUBSET PrimeImplicantsMeant : RequiredTerms \subseteq Covered(S)}
        fewest == {S \in covers : \A T \in covers : Cardinality(S) <= Cardinality(T)}
    IN  {S \in fewest : \A T \in fewest : SumOver(S, W) <= SumOver(T, W)}

\* every set of solutions simplify's rules can lead to from a chart, over all
\* orders of applying them
RECURSIVE Outcomes(_, _, _)
Outcomes(ch, w, find_all_solutions) ==
    LET steps == SimplifySteps(ch, w, find_all_solutions)
    IN  IF steps = {}
        THEN {{ch.essential \cup p : p \in PetrickSolve(ch.rows, ch.columns, w)}}
        ELSE UNION {Outcomes(n, w, find_all_solutions) : n \in steps}

Returned == epc = "returned"

\* ------------------------------------------------------------------ claims

\* C1: every solution minimize_internal returns covers all required terms and
\* nothing outside the required terms and the don't-cares, and the assertion on
\* check_solution never fails.
C1_CoverageSoundness ==
    /\ epc # "panicked"
    /\ pc # "aborted"
    /\ Returned => \A sol \in solutions : Sound(sol)
    /\ (pc = "done" /\ result.kind = "Ok") => \A sol \in result.payload : Sound(sol)

C1_Witness ==
    /\ pc = "done" /\ result.kind = "Ok"
    /\ \E sol \in result.payload : Cardinality(sol) >= 2 /\ Covered(sol) # RequiredTerms

\* C2: with find_all_solutions the returned solutions are exactly the covers by
\* prime implicants with the fewest implicants and, among those, the fewest literals.
C2_AllMinimalCovers ==
    (Returned /\ args.find_all_solutions) => solutions = BestCovers

C2_Witness ==
    /\ Returned /\ args.find_all_solutions
    /\ Cardinality(solutions) >= 2
    /\ \E S \in SUBSET PrimeImplicantsMeant :
          /\ RequiredTerms \subseteq Covered(S)
          /\ \A sol \in solutions : Cardinality(S) = Cardinality(sol)
          /\ S \notin solutions

\* C3: in the timed path the caller returns exactly the first message that
\* arrived on the channel: the computation's result if that came first, the
\* timeout if that came first; never none and never a later one.
C3_FirstArrivalWins ==
    /\ (Started /\ args.timeout /\ pc = "waiting") => result = None
    /\ (Started /\ args.timeout /\ pc = "done") =>
          /\ Len(sent) >= 1
          /\ result.kind = sent[1].kind
          /\ result.kind \in {"Ok", "Timeout"}
          /\ result.kind = "Ok" => (Returned /\ result.payload = solutions)

C3_Witness ==
    /\ args.timeout /\ pc = "done"
    /\ Len(sent) = 2
    /\ sent[1].kind = "Timeout" /\ sent[2].kind = "Ok"

\* C4: no implicant of a returned solution can be removed: what is left no
\* longer covers every required term.
C4_Irredundant ==
    Returned =>
        \A sol \in solutions : \A imp \in sol :
            ~(RequiredTerms \subseteq Covered(sol \ {imp}))

C4_Witness ==
    /\ Returned
    /\ \E sol \in solutions :
          /\ Cardinality(sol) >= 2
          /\ \E imp \in Range(prime_implicants) \ sol : Sound(sol \cup {imp})

\* the variable list passes validate_input's checks on the variables
VariablesValid ==
    /\ Len(args.variables) \in 1 .. DefaultVariablesLen
    /\ \A i \in 1 .. Len(args.variables) :
          args.variables[i] \notin {"0", "1", "", " A"}
    /\ \A i, j \in 1 .. Len(args.variables) :
          i # j => args.variables[i] # args.variables[j]

TermsInRange == \A t \in args.terms1 \cup args.terms2 : t < Pow2(W)

Overlap == args.terms1 \cap args.terms2

\* C5 as stated: overlapping term sets always yield TermConflict.
C5_OverlapAlwaysTermConflict ==
    (pc # "start" /\ Overlap # {}) =>
        /\ pc = "done"
        /\ result.kind = "TermConflict"
        /\ result.payload = Overlap

\* C5 amended: overlapping term sets always yield an error and never a
\* solution; the error is TermConflict, carrying exactly the shared terms,
\* when the variable list is valid and every term is in range, and otherwise
\* the error of the earlier check that fails.
C5_OverlapNeverSolution ==
    (pc # "start" /\ Overlap # {}) =>
        /\ pc = "done"
        /\ epc = "idle"
        /\ result.kind \in {"InvalidVariableCount", "InvalidVariable",
                            "DuplicateVariables", "TermOutOfBounds", "TermConflict"}
        /\ (VariablesValid /\ TermsInRange) =>
              (result.kind = "TermConflict" /\ result.payload = Overlap)
        /\ result.kind = "TermConflict" => (VariablesValid /\ TermsInRange)

C5_Witness ==
    /\ pc = "done"
    /\ result.kind = "TermConflict"
    /\ result.payload # args.terms1
    /\ result.payload # args.terms2

\* the chart simplify starts from, once find_prime_implicants has returned
InitialChart == NewChart(Range(prime_implicants), dont_cares, W)

\* what the call returns when every solution is asked for
AllSolutions == CHOOSE o \in Outcomes(InitialChart, W, TRUE) : TRUE

\* C6: for fixed inputs the set of returned solutions does not depend on the
\* order in which rows and columns are visited: the solutions a run returns are
\* the only set of solutions any order of applying simplify's rules leads to.
C6_SameSolutionsInEveryOrder ==
    Returned => Outcomes(InitialChart, W, SimplifyFlag) = {solutions}

\* C7: without find_all_solutions the result is non-empty and every solution in
\* it is one of the solutions returned with find_all_solutions.
C7_DominanceKeepsMinimal ==
    (Returned /\ ~args.find_all_solutions) =>
        /\ solutions # {}
        /\ solutions \subseteq AllSolutions

\* C8: find_prime_implicants returns each prime implicant of the input once,
\* and nothing else.
C8_PrimeImplicants ==
    epc \in {"simplify", "returned"} =>
        /\ Range(prime_implicants) = PrimeImplicantsMeant
        /\ Cardinality(Range(prime_implicants)) = Len(prime_implicants)

C8_Witness ==
    /\ epc = "simplify"
    /\ Len(prime_implicants) >= 2
    /\ rounds >= 2
    /\ \E im \in ValidImplicants :
          im \notin Range(prime_implicants) /\ get_terms(im, W) \cap RequiredTerms # {}
    /\ \E im \in ValidImplicants : get_terms(im, W) \subseteq DontCareTerms

\* C9: while simplify runs, every column still in the chart is covered by a row
\* still in the chart, and Petrick finds a covering of what is left.
C9_ChartConsistent ==
    /\ epc = "simplify" => \A c \in columns : ColRows(c, rows, W) # {}
    /\ Returned => solutions # {}

C9_Witness ==
    /\ epc = "simplify"
    /\ ~args.find_all_solutions
    /\ rows # Range(prime_implicants) \ essential
    /\ columns # {}
    /\ \E r1 \in Range(prime_implicants) \ (rows \cup essential) :
          \E r2 \in rows : RowCols(r1, columns, W) = RowCols(r2, columns, W)

\* C10: the thread that loses the race never fails in its send: neither the
\* computation thread nor the timer thread panics on send's result.
C10_LoserDiscardedQuietly ==
    /\ comp # "send_panicked"
    /\ timer # "send_panicked"

\* C11: a failed assertion of minimize_internal is fatal on every path: once
\* check_solution has failed on a solution, with or without a timeout, a
\* caller that has not returned yet never returns a value (neither solutions
\* nor Error::Timeout); the call aborts.
C11_CheckFailureIsFatal ==
    [][(epc' = "panicked" /\ pc # "done") => pc' # "done"]_vars

\* C12: the grouping loop of find_prime_implicants terminates for every
\* input, an empty term set included: whenever an iteration is about to
\* evaluate groups.len() - 1 the group list is not empty, every round leaves
\* one group fewer than the round before (variable_count + 1 at the start),
\* a single remaining group combines nothing, and the loop has been left
\* after at most variable_count + 1 rounds.
C12_GroupingTerminates ==
    /\ epc = "grouping" =>
          /\ Len(groups) >= 1
          /\ Len(groups) = W + 1 - rounds
          /\ Len(groups) = 1 =>
                \A k \in 1 .. Len(groups) : ~was_combined(MarkCombined(groups, W)[k])
    /\ rounds <= W + 1
    /\ epc \in {"simplify", "returned", "panicked"} => rounds >= 1

\* the loop ran its longest: every term is allowed, the groups shrank down to
\* the single group of the all-dashes implicant, and the next round broke
C12_Witness ==
    /\ epc = "simplify"
    /\ W >= 2
    /\ rounds = W + 1
    /\ Len(groups) = 1

====
